---- MODULE Spec2Model ----
(***************************************************************************)
(* Model of the Techpire/db document store: the serialized Executor        *)
(* (src/src/Executor.ts), the load pipeline and journal replay of          *)
(* Persistence (src/unnamed/part_001) and the options classes              *)
(* (src/src/Model.ts).                                                     *)
(***************************************************************************)
EXTENDS Integers, Sequences, FiniteSets, TLC

VARIABLES
    isReady,      \* Executor.isReady, the field push() tests
    ready,        \* the property `ready` that processBuffer assigns (FALSE: not set)
    _buffer,      \* Executor._buffer, the field push() appends to
    buffer,       \* the property `buffer` that processBuffer assigns (set: assigned)
    _queue,       \* tasks waiting in the async queue, oldest first
    running,      \* the queue's single worker slot: the entry being run, or None
    cbScheduled,  \* setImmediate(cb) of the running entry is pending
    nextTask,     \* number of tasks pushed so far + 1
    nextSeq,      \* number of entries handed to the queue so far + 1
    startLog,     \* seq of the entries whose fn has been started, in order
    doneLog,      \* seq of the entries whose completion signal was delivered
    threwLog,     \* seq of the entries whose user callback threw
    lastOp,       \* the operation that produced the current state
    inMemoryOnly, \* Datastore.inMemoryOnly
    loadPc,       \* position of the callback chain of each loadDatabase call
    loadResult,   \* what each loadDatabase call passed to its callback
    loads,        \* number of loadDatabase calls so far
    cbCalls,      \* times each loadDatabase call invoked the cb of its waterfall
    callbackCalls, \* times each loadDatabase call invoked its callback
    rawData,      \* journal handed to treatRawData, as its lines
    treated,      \* what treatRawData returned or threw for rawData
    datafile,     \* the file `filename` on disk: [exists, docs]
    tempfile,     \* the file `filename~` on disk: [exists, docs]
    cache,        \* the documents the datastore holds in memory (its indexes)
    storeHist,    \* what has happened to the store so far
    _tree,        \* Indexer._tree, as the set of its nodes [key, value]
    _isUniqueKeys,  \* Indexer._isUniqueKeys
    _isAllowSparse, \* Indexer._isAllowSparse
    keyWalk,      \* how the tree treats a key that is not ordered against its keys
    live,         \* documents inserted by a successful call and not removed since
    idxOp,        \* the last Indexer call: its name, argument and outcome
    idxHist,      \* what the Indexer calls so far have been
    call,         \* arguments of the function under evaluation
    result        \* what the function returned or threw for call

execVars == <<isReady, ready, _buffer, buffer, _queue, running, cbScheduled,
              nextTask, nextSeq, startLog, doneLog, threwLog>>
loadVars == <<inMemoryOnly, loadPc, loadResult, loads, cbCalls, callbackCalls>>
replayVars == <<rawData, treated>>
storageVars == <<datafile, tempfile, cache, storeHist>>
indexVars == <<_tree, _isUniqueKeys, _isAllowSparse, keyWalk, live, idxOp, idxHist>>
fnVars == <<call, result>>
vars == <<execVars, loadVars, replayVars, lastOp, storageVars, indexVars, fnVars>>

\* ---------------------------------------------------------------- bounds
MaxPush == 2
MaxLoads == 2
MaxLines == 4

None == [task |-> 0, fn |-> "", lastArg |-> "", seq |-> 0, forced |-> FALSE]

\* the last element of task.arguments, as the worker classifies it
LastArgs == {"function", "falsy", "none"}

\* what a task's fn is
Fns == {"op", "_exec", "persistCachedDatabase"}

Op(op, task, force, to, threw) ==
    [op |-> op, task |-> task, force |-> force, to |-> to, threw |-> threw]

\* ------------------------------------------------------------- task bodies

\* Datastore operation (insert, update, remove, ...): does its work and then
\* invokes the completion callback it was given as last argument.
DatastoreOpInvokesCallback == TRUE

\* Cursor._exec: the body is commented out, the callback is never invoked.
_execInvokesCallback == FALSE

\* Persistence.persistCachedDatabase: the body is commented out.
persistCachedDatabaseInvokesCallback == FALSE

InvokesCallback(fn) ==
    CASE fn = "op" -> DatastoreOpInvokesCallback
      [] fn = "_exec" -> _execInvokesCallback
      [] fn = "persistCachedDatabase" -> persistCachedDatabaseInvokesCallback

\* ---------------------------------------------------------------- Executor

\* a queue without a concurrency limit
WorkerFreeUnlimited == TRUE

\* queue(worker, 1): the worker is handed a task only when none is running
WorkerFree == running = None

NewTask(fn, lastArg) == [task |-> nextTask, fn |-> fn, lastArg |-> lastArg]

\* _queue.push(task) for each task of ts, in order
RECURSIVE QueuePush(_, _, _, _)
QueuePush(q, ts, seq, forced) ==
    IF ts = <<>> THEN q
    ELSE QueuePush(Append(q, [task |-> Head(ts).task, fn |-> Head(ts).fn,
                              lastArg |-> Head(ts).lastArg, seq |-> seq,
                              forced |-> forced]),
                   Tail(ts), seq + 1, forced)

\* Executor.push(task, forceQueuing)
push(task, forceQueuing) ==
    /\ IF isReady = TRUE \/ forceQueuing = TRUE
       THEN /\ _queue' = QueuePush(_queue, <<task>>, nextSeq, forceQueuing)
            /\ nextSeq' = nextSeq + 1
            /\ UNCHANGED _buffer
       ELSE /\ _buffer' = Append(_buffer, task)
            /\ UNCHANGED <<_queue, nextSeq>>
    /\ nextTask' = nextTask + 1
    /\ lastOp' = Op("push", task.task, forceQueuing,
                     IF isReady = TRUE \/ forceQueuing = TRUE
                     THEN "queue" ELSE "buffer", FALSE)
    /\ UNCHANGED <<isReady, ready, buffer, running, cbScheduled,
                   startLog, doneLog, threwLog>>

\* Executor.processBuffer
processBuffer ==
    /\ ready' = TRUE
    /\ _queue' = QueuePush(_queue, _buffer, nextSeq, FALSE)
    /\ nextSeq' = nextSeq + Len(_buffer)
    /\ buffer' = [set |-> TRUE, value |-> <<>>]
    /\ UNCHANGED <<isReady, _buffer>>

\* A Datastore operation is submitted: executor.push(task, force)
Push(lastArg, force) ==
    /\ nextTask <= MaxPush
    /\ push(NewTask("op", lastArg), force)
    /\ UNCHANGED <<loadVars, replayVars, storageVars, indexVars, fnVars>>

\* Cursor.exec
exec(lastArg) ==
    /\ nextTask <= MaxPush
    /\ push(NewTask("_exec", lastArg), FALSE)
    /\ UNCHANGED <<loadVars, replayVars, storageVars, indexVars, fnVars>>

\* Persistence.compactDatafile
compactDatafile ==
    /\ nextTask <= MaxPush
    /\ push(NewTask("persistCachedDatabase", "none"), FALSE)
    /\ UNCHANGED <<loadVars, replayVars, storageVars, indexVars, fnVars>>

\* the async queue hands its oldest task to the worker (Executor._queue):
\* the worker wraps the last argument and calls task.fn
QueueProcess ==
    /\ WorkerFree
    /\ _queue # <<>>
    /\ running' = Head(_queue)
    /\ _queue' = Tail(_queue)
    /\ cbScheduled' = FALSE
    /\ startLog' = Append(startLog, Head(_queue).seq)
    /\ lastOp' = Op("start", Head(_queue).task, FALSE, "", FALSE)
    /\ UNCHANGED <<isReady, ready, _buffer, buffer, nextTask, nextSeq,
                   doneLog, threwLog, loadVars, replayVars, storageVars, indexVars, fnVars>>

\* a wrapper that invokes the user callback first and schedules cb after it
\* has returned: lastArg.apply(null, arguments), then setImmediate(cb)
CallbackWrapperCallbackFirst(threw) ==
    /\ cbScheduled' = ~threw
    /\ threwLog' = IF threw THEN threwLog \cup {running.seq} ELSE threwLog
    /\ UNCHANGED <<running, doneLog>>

\* the wrapper the worker puts in place of a function last argument:
\* setImmediate(cb), then lastArg.apply(null, arguments)
CallbackWrapper(threw) ==
    /\ cbScheduled' = TRUE
    /\ threwLog' = IF threw THEN threwLog \cup {running.seq} ELSE threwLog
    /\ UNCHANGED <<running, doneLog>>

\* cb(): the queue's completion signal for the running entry
cb ==
    /\ doneLog' = doneLog \cup {running.seq}
    /\ running' = None
    /\ cbScheduled' = FALSE

\* the running task's fn has finished its work and invokes its last argument
FnDone(threw) ==
    /\ running # None
    /\ ~cbScheduled
    /\ InvokesCallback(running.fn)
    /\ IF running.lastArg = "function"
       THEN CallbackWrapper(threw)
       ELSE /\ threw = FALSE
            /\ cb
            /\ UNCHANGED threwLog
    /\ lastOp' = Op("callback", running.task, FALSE, "", threw)
    /\ UNCHANGED <<isReady, ready, _buffer, buffer, _queue, nextTask, nextSeq,
                   startLog, loadVars, replayVars, storageVars, indexVars, fnVars>>

\* the event loop runs the scheduled setImmediate(cb)
Immediate ==
    /\ running # None
    /\ cbScheduled
    /\ cb
    /\ lastOp' = Op("immediate", running.task, FALSE, "", FALSE)
    /\ UNCHANGED <<isReady, ready, _buffer, buffer, _queue, nextTask, nextSeq,
                   startLog, threwLog, loadVars, replayVars, storageVars, indexVars, fnVars>>

\* ------------------------------------------------------------- Persistence

LoadIds == 1..MaxLoads

\* Datastore.resetIndexes() without documents: every index is emptied
resetIndexes == {}

\* Persistence.loadDatabase(cb), up to the first asynchronous call: it
\* resets the indexes, then an in-memory only datastore returns
\* callback(null) at once and a persistent one starts Storage.mkdirp
loadDatabase ==
    /\ loads < MaxLoads
    /\ loads' = loads + 1
    /\ IF inMemoryOnly = TRUE
       THEN /\ loadPc' = [loadPc EXCEPT ![loads + 1] = "returned"]
            /\ loadResult' = [loadResult EXCEPT ![loads + 1] = "ok"]
            /\ callbackCalls' = [callbackCalls EXCEPT ![loads + 1] = @ + 1]
       ELSE /\ loadPc' = [loadPc EXCEPT ![loads + 1] = "mkdirp"]
            /\ UNCHANGED <<loadResult, callbackCalls>>
    /\ UNCHANGED cbCalls
    /\ cache' = resetIndexes
    /\ storeHist' = [storeHist EXCEPT !.preLoad = cache, !.cleanLoad = TRUE]
    /\ lastOp' = Op("loadDatabase", loads + 1, FALSE, "", FALSE)
    /\ UNCHANGED <<execVars, inMemoryOnly, replayVars, datafile, tempfile,
                   indexVars, fnVars>>

\* a Storage.ensureDatafileIntegrity that invokes the callback it is given
ensureDatafileIntegrityInvokesCallbackOnce == TRUE

\* Storage.ensureDatafileIntegrity: the body is commented out, the callback
\* is never invoked
ensureDatafileIntegrityInvokesCallback == FALSE

\* the calls of the waterfall's cb by one load: cb(err) after the call of
\* ensureDatafileIntegrity, and cb(err) in the callback handed to it
waterfallCbCalls == 1 + (IF ensureDatafileIntegrityInvokesCallback THEN 1 ELSE 0)

\* the callback of Storage.mkdirp in loadDatabase: it calls
\* Storage.ensureDatafileIntegrity (whose body is commented out, so that the
\* callback holding readFile, treatRawData, resetIndexes and
\* persistCachedDatabase is never invoked) and then cb(err), which runs the
\* final function of the waterfall: callback(err) on an error, otherwise
\* executor.processBuffer() and callback(null)
ensureDirectoryExistsCallback(i, err) ==
    /\ loadPc[i] = "mkdirp"
    /\ loadPc' = [loadPc EXCEPT ![i] = "ensureDatafileIntegrity"]
    /\ cbCalls' = [cbCalls EXCEPT ![i] = @ + waterfallCbCalls]
    /\ callbackCalls' = [callbackCalls EXCEPT ![i] = @ + 1]
    /\ IF err
       THEN /\ loadResult' = [loadResult EXCEPT ![i] = "error"]
            /\ UNCHANGED execVars
       ELSE /\ processBuffer
            /\ loadResult' = [loadResult EXCEPT ![i] = "ok"]
            /\ UNCHANGED <<running, cbScheduled, nextTask, startLog,
                           doneLog, threwLog>>
    /\ lastOp' = Op("loadCallback", i, FALSE, "", err)
    /\ UNCHANGED <<inMemoryOnly, loads, replayVars, storageVars, indexVars, fnVars>>

\* ------------------------------------------------------------ journal replay

Undefined == "undefined"

Ids == {"a", "b"}
Vals == {1, 2}
FieldNames == {"x"}

\* a parsed journal record: the fields treatRawData looks at, Undefined when absent
Record(id, deleted, v, indexCreated, indexRemoved) ==
    [_id |-> id, deleted |-> deleted, v |-> v,
     indexCreated |-> indexCreated, indexRemoved |-> indexRemoved]

NoIndex == [fieldName |-> Undefined, unique |-> FALSE]

DocRecords == {Record(id, FALSE, v, NoIndex, Undefined) : id \in Ids, v \in Vals}
Tombstones == {Record(id, TRUE, 0, NoIndex, Undefined) : id \in Ids}
IndexCreatedRecords ==
    {Record(Undefined, FALSE, 0, [fieldName |-> f, unique |-> u], Undefined) :
        f \in FieldNames, u \in BOOLEAN}
IndexRemovedRecords == {Record(Undefined, FALSE, 0, NoIndex, f) : f \in FieldNames}

\* the lines of a data file: a serialized record, text that is not JSON, or
\* the empty string that follows the last newline
Lines ==
    {[text |-> "json", doc |-> r] :
        r \in DocRecords \cup Tombstones \cup IndexCreatedRecords \cup IndexRemovedRecords}
    \cup {[text |-> "garbage", doc |-> Record(Undefined, FALSE, 0, NoIndex, Undefined)],
          [text |-> "", doc |-> Record(Undefined, FALSE, 0, NoIndex, Undefined)]}

\* rawData.split('\n') of the files the model reads
JournalInputs == UNION {[1..n -> Lines] : n \in 1..MaxLines}

\* this._beforeDeserialization when no hook is configured
_beforeDeserialization(s) == s

\* Model.deserialize: JSON.parse throws on text that is not JSON
deserializeThrows(line) == line.text # "json"

deserialize(line) == line.doc

\* JavaScript truthiness of doc._id
Truthy(x) == x # Undefined /\ x # ""

\* PersistenceOptions: corruptAlertThreshold = options.corruptAlertThreshold ?? 0.1
DefaultCorruptAlertThreshold == [defined |-> TRUE, num |-> 1, den |-> 10]

\* Persistence._corruptAlertThreshold: declared, the constructor never assigns it
_corruptAlertThreshold == [defined |-> FALSE, num |-> 0, den |-> 1]

\* corruptItems / length > threshold; a comparison with undefined is false
ExceedsThreshold(corruptItems, length, threshold) ==
    /\ threshold.defined
    /\ corruptItems * threshold.den > threshold.num * length

Put(f, k, val) == [x \in (DOMAIN f) \cup {k} |-> IF x = k THEN val ELSE f[x]]
Delete(f, k) == [x \in (DOMAIN f) \ {k} |-> f[x]]

\* a variant of the loop body in which a tombstone leaves the document in place
TreatLineKeepDeleted(acc, line) ==
    IF deserializeThrows(_beforeDeserialization(line))
    THEN [acc EXCEPT !.corruptItems = @ + 1]
    ELSE LET doc == deserialize(_beforeDeserialization(line)) IN
         IF Truthy(doc._id)
         THEN IF doc.deleted = TRUE
              THEN acc
              ELSE [acc EXCEPT !.dataById = Put(@, doc._id, doc)]
         ELSE IF doc.indexCreated.fieldName # Undefined
         THEN [acc EXCEPT !.indexes = Put(@, doc.indexCreated.fieldName, doc.indexCreated)]
         ELSE IF doc.indexRemoved # Undefined
         THEN [acc EXCEPT !.indexes = Delete(@, doc.indexRemoved)]
         ELSE acc

\* the body of the loop over the lines in treatRawData
TreatLine(acc, line) ==
    IF deserializeThrows(_beforeDeserialization(line))
    THEN [acc EXCEPT !.corruptItems = @ + 1]
    ELSE LET doc == deserialize(_beforeDeserialization(line)) IN
         IF Truthy(doc._id)
         THEN IF doc.deleted = TRUE
              THEN [acc EXCEPT !.dataById = Delete(@, doc._id)]
              ELSE [acc EXCEPT !.dataById = Put(@, doc._id, doc)]
         ELSE IF doc.indexCreated.fieldName # Undefined
         THEN [acc EXCEPT !.indexes = Put(@, doc.indexCreated.fieldName, doc.indexCreated)]
         ELSE IF doc.indexRemoved # Undefined
         THEN [acc EXCEPT !.indexes = Delete(@, doc.indexRemoved)]
         ELSE acc

RECURSIVE TreatLines(_, _)
TreatLines(acc, data) ==
    IF data = <<>> THEN acc
    ELSE TreatLines(TreatLine(acc, Head(data)), Tail(data))

\* Persistence.treatRawData, data being rawData.split('\n')
treatRawData(data) ==
    LET acc == TreatLines([dataById |-> <<>>, indexes |-> <<>>, corruptItems |-> -1], data) IN
    IF Len(data) > 0 /\ ExceedsThreshold(acc.corruptItems, Len(data), _corruptAlertThreshold)
    THEN [called |-> TRUE, threw |-> TRUE, data |-> {}, indexes |-> <<>>,
          corruptItems |-> acc.corruptItems]
    ELSE [called |-> TRUE, threw |-> FALSE,
          data |-> {acc.dataById[k] : k \in DOMAIN acc.dataById},
          indexes |-> acc.indexes, corruptItems |-> acc.corruptItems]

NotTreated == [called |-> FALSE, threw |-> FALSE, data |-> {}, indexes |-> <<>>,
               corruptItems |-> 0]

\* treatRawData is applied to the lines read from the data file
TreatRawData ==
    /\ treated = NotTreated
    /\ treated' = treatRawData(rawData)
    /\ lastOp' = Op("treatRawData", 0, FALSE, "", treated'.threw)
    /\ UNCHANGED <<execVars, loadVars, rawData, storageVars, indexVars, fnVars>>

\* --------------------------------------------------- replay into the indexes

\* datafiles that declare an index and hold two documents
IndexedFiles ==
    {<<[text |-> "json", doc |-> ic], [text |-> "json", doc |-> d], [text |-> "json", doc |-> e]>> :
        ic \in IndexCreatedRecords, d \in DocRecords, e \in DocRecords}

\* Datastore.resetIndexes(treatedData.data) throws: an index declared unique
\* is given two surviving documents with the same value v under its field
resetIndexesThrows(data) ==
    LET t == treatRawData(data) IN
    /\ ~t.threw
    /\ \E f \in DOMAIN t.indexes :
          /\ t.indexes[f].unique
          /\ \E d, e \in t.data : d # e /\ d.v = e.v

\* ------------------------------------------------------- storage and reload

MaxMutations == 2
MaxCrashes == 1

DocSets == SUBSET Ids
NoFile == [exists |-> FALSE, docs |-> {}]
File(docs) == [exists |-> TRUE, docs |-> docs]
Files == {NoFile} \cup {File(docs) : docs \in DocSets}

\* Persistence.persistNewState(newDocs, cb): the body is commented out, so
\* nothing is appended to the datafile and cb is never invoked
persistNewState(file, newDocs) == file

\* A mutation of the datastore (insert of a document that is not in memory,
\* removal of one that is): the indexes change, then the change is handed to
\* persistNewState
DatastoreMutation(d) ==
    /\ storeHist.mutations < MaxMutations
    /\ cache' = IF d \in cache THEN cache \ {d} ELSE cache \cup {d}
    /\ datafile' = persistNewState(datafile, {d})
    /\ storeHist' = [storeHist EXCEPT !.mutations = @ + 1, !.cleanLoad = FALSE]
    /\ lastOp' = Op("mutation", 0, FALSE, "", FALSE)
    /\ UNCHANGED <<execVars, loadVars, replayVars, tempfile, indexVars, fnVars>>

\* Storage.crashSafeWriteFile(filename, data, cb): the body is commented out,
\* so neither file changes and cb is never invoked
crashSafeWriteFile(data) ==
    /\ ~storeHist.wrote
    /\ UNCHANGED <<datafile, tempfile>>
    /\ storeHist' = [storeHist EXCEPT !.wrote = TRUE, !.old = datafile.docs,
                                      !.new = data, !.crashed = FALSE]
    /\ lastOp' = Op("crashSafeWriteFile", 0, FALSE, "", FALSE)
    /\ UNCHANGED <<execVars, loadVars, replayVars, cache, indexVars, fnVars>>

\* The process stops and is started again: the files stay, the memory of the
\* datastore, its executor and its pending callbacks are gone
Crash ==
    /\ storeHist.crashes < MaxCrashes
    /\ cache' = {}
    /\ isReady' = FALSE
    /\ ready' = FALSE
    /\ _buffer' = <<>>
    /\ buffer' = [set |-> FALSE, value |-> <<>>]
    /\ _queue' = <<>>
    /\ running' = None
    /\ cbScheduled' = FALSE
    /\ loadPc' = [i \in LoadIds |-> IF loadPc[i] = "mkdirp" THEN "killed" ELSE loadPc[i]]
    /\ storeHist' = [storeHist EXCEPT !.crashes = @ + 1, !.crashed = TRUE,
                                      !.cleanLoad = FALSE]
    /\ lastOp' = Op("crash", 0, FALSE, "", FALSE)
    /\ UNCHANGED <<nextTask, nextSeq, startLog, doneLog, threwLog, inMemoryOnly,
                   loadResult, loads, cbCalls, callbackCalls, replayVars,
                   datafile, tempfile,
                   indexVars, fnVars>>

\* ------------------------------------------------------------------ Indexer

MaxIndexOps == 2
MaxBatch == 2

Null == "null"
ArrayValue == "array"
Keys == {"x", "y"}

\* documents {a, tf}; the index is on the field tf, which holds a string,
\* is missing (undefined) or is an array. A null field takes the same path
\* through insert and remove as a missing one (key == null)
Docs == [a : {1, 2}, tf : {"x"}]
         \cup [a : {1}, tf : {"y", Undefined, ArrayValue}]
Batches == UNION {[1..n -> Docs] : n \in 1..MaxBatch}

\* Model.getDotValue(obj, fieldName) for the one-part field name of the
\* index: obj[fieldName]. An array of documents has no such property, so
\* the value is undefined
getDotValue(obj, isArray) == IF isArray THEN Undefined ELSE obj.tf

\* The tree compares keys with <, > and ===. String keys are totally
\* ordered. For a key that is undefined, null or an array, every order
\* comparison against a string key is false, and what the tree then does
\* depends on how it walks: "byKey", it treats the key like any other and
\* acts on the node that holds exactly this key; "fromRoot", it takes
\* neither branch at the root and acts on the node it stands on. Which of
\* the two the installed tree does is fixed for a run
KeyWalks == {"byKey", "fromRoot"}
Comparable(k) == k \in Keys

\* BinarySearchTree.has(key)
TreeHas(t, k) ==
    IF Comparable(k) \/ keyWalk = "byKey"
    THEN {\E n \in t : n.key = k}
    ELSE {FALSE} \cup {TRUE : n \in {m \in t : m.key = k}}

\* an insert that leaves the node of an equal key as it is
TreeInsertKeepFirst(t, k, v) ==
    IF \E n \in t : n.key = k
    THEN {t}
    ELSE {t \cup {[key |-> k, value |-> v]}}

\* BinarySearchTree.insert(key, value): a node whose key is equal gets the
\* new value, otherwise a node is added
TreeInsert(t, k, v) ==
    IF Comparable(k) \/ keyWalk = "byKey" \/ t = {}
    THEN {{n \in t : n.key # k} \cup {[key |-> k, value |-> v]}}
    ELSE {(t \ {n}) \cup {[key |-> n.key, value |-> v]} : n \in t}

\* BinarySearchTree.remove(key)
TreeRemove(t, k) ==
    IF Comparable(k) \/ keyWalk = "byKey" \/ t = {}
    THEN {{n \in t : n.key # k}}
    ELSE {t \ {n} : n \in t}

\* BinarySearchTree.find(key)?.getValue(), for a string key
find(k) == {n.value : n \in {m \in _tree : m.key = k}}

\* BinarySearchTree.count()
count == Cardinality(_tree)

Outcome(t, threw) == [tree |-> t, threw |-> threw]

\* an insert of a single document without the unique-constraint test
insertDocUnchecked(t, doc) ==
    LET key == getDotValue(doc, FALSE)
    IN  IF key \in {Null, Undefined} /\ _isAllowSparse
        THEN {Outcome(t, FALSE)}
        ELSE IF key = ArrayValue
        THEN {Outcome(t, TRUE)}
        ELSE {Outcome(u, FALSE) : u \in TreeInsert(t, key, doc)}

\* Indexer.insert(doc) for a single document
insertDoc(t, doc) ==
    LET key == getDotValue(doc, FALSE)
    IN  IF key \in {Null, Undefined} /\ _isAllowSparse
        THEN {Outcome(t, FALSE)}
        ELSE IF key = ArrayValue
        THEN {Outcome(t, TRUE)}
        ELSE UNION {IF _isUniqueKeys /\ h
                    THEN {Outcome(t, TRUE)}
                    ELSE {Outcome(u, FALSE) : u \in TreeInsert(t, key, doc)}
                    : h \in TreeHas(t, key)}

\* doc.forEach((d) => { this.insert(d) }): stops at the first throw
RECURSIVE insertEach(_, _)
insertEach(t, docs) ==
    IF docs = <<>>
    THEN {Outcome(t, FALSE)}
    ELSE UNION {IF r.threw THEN {r} ELSE insertEach(r.tree, Tail(docs))
                : r \in insertDoc(t, Head(docs))}

\* the catch block of a batch insert: for each element of the batch,
\* this._tree.remove(getDotValue(doc, fieldName)) with doc the whole array
RECURSIVE rollback(_, _)
rollback(t, n) ==
    IF n = 0
    THEN {t}
    ELSE UNION {rollback(u, n - 1) : u \in TreeRemove(t, getDotValue(<<>>, TRUE))}

\* Indexer.insert(doc), doc a document or an array of documents
insertOutcomes(t, docs, isArray) ==
    IF isArray
    THEN UNION {IF r.threw
                THEN {Outcome(u, TRUE) : u \in rollback(r.tree, Len(docs))}
                ELSE {r}
                : r \in insertEach(t, docs)}
    ELSE insertDoc(t, docs[1])

\* the last lines of Indexer.remove, once key is set
removeKey(t, key) ==
    IF key \in {Null, Undefined} /\ _isAllowSparse
    THEN {t}
    ELSE UNION {IF h THEN TreeRemove(t, key) ELSE {t} : h \in TreeHas(t, key)}

\* doc.forEach((d) => { this.remove(d) })
RECURSIVE removeEach(_, _)
removeEach(t, docs) ==
    IF docs = <<>>
    THEN {t}
    ELSE UNION {removeEach(u, Tail(docs))
                : u \in removeKey(t, getDotValue(Head(docs), FALSE))}

\* the arguments of insert and remove: a document, an array of documents,
\* and for remove also a bare key
DocArgs == [kind : {"doc"}, docs : [1..1 -> Docs], key : {""}]
ArrayArgs == [kind : {"array"}, docs : Batches, key : {""}]
KeyArgs == [kind : {"key"}, docs : {<<>>}, key : Keys]
ArgDocs(arg) == {arg.docs[i] : i \in DOMAIN arg.docs}

\* Indexer.remove(doc): after the forEach over an array the local key is
\* still undefined when the last lines run
removeOutcomes(t, arg) ==
    IF arg.kind = "array"
    THEN UNION {removeKey(u, Undefined) : u \in removeEach(t, arg.docs)}
    ELSE IF arg.kind = "doc"
    THEN removeKey(t, getDotValue(arg.docs[1], FALSE))
    ELSE removeKey(t, arg.key)

\* the key a call names: the field of its document, or the bare key
ArgKey(arg) == IF arg.kind = "doc" THEN arg.docs[1].tf ELSE arg.key

IndexOp(op, arg, threw, t) ==
    [op |-> op, kind |-> arg.kind, key |-> ArgKey(arg),
     had |-> \E n \in t : n.key = ArgKey(arg), threw |-> threw]

\* a call of Indexer.insert
insert(arg) ==
    /\ idxHist.n < MaxIndexOps
    /\ \E r \in insertOutcomes(_tree, arg.docs, arg.kind = "array") :
          /\ _tree' = r.tree
          /\ live' = IF r.threw THEN live ELSE live \cup ArgDocs(arg)
          /\ idxOp' = IndexOp("insert", arg, r.threw, _tree)
          /\ idxHist' = [n |-> idxHist.n + 1, threw |-> idxHist.threw \/ r.threw]
    /\ UNCHANGED <<execVars, loadVars, replayVars, lastOp, storageVars,
                   _isUniqueKeys, _isAllowSparse, keyWalk, fnVars>>

\* a call of Indexer.remove
remove(arg) ==
    /\ idxHist.n < MaxIndexOps
    /\ \E u \in removeOutcomes(_tree, arg) :
          /\ _tree' = u
          /\ live' = IF arg.kind = "key"
                     THEN {d \in live : d.tf # arg.key}
                     ELSE live \ ArgDocs(arg)
          /\ idxOp' = IndexOp("remove", arg, FALSE, _tree)
          /\ idxHist' = [n |-> idxHist.n + 1, threw |-> idxHist.threw]
    /\ UNCHANGED <<execVars, loadVars, replayVars, lastOp, storageVars,
                   _isUniqueKeys, _isAllowSparse, keyWalk, fnVars>>

\* ------------------------------------------------------------- Model.modify

MaxUpdates == 2

\* values of a field: undefined (the field is missing), a string (v is its
\* rank in lexicographic order), a number, or an array of numbers
Absent == [t |-> "undefined", v |-> 0, elems |-> <<>>]
Str(i) == [t |-> "string", v |-> i, elems |-> <<>>]
Num(i) == [t |-> "number", v |-> i, elems |-> <<>>]
Arr(e) == [t |-> "array", v |-> 0, elems |-> e]
Strs == {Str(1), Str(2)}
Nums == {Num(0), Num(1), Num(2)}

\* documents { _id, v }
ModelDocs == [_id : {Absent, Arr(<<>>)} \cup Strs \cup {Num(1), Num(2)},
              v : {Absent, Num(1), Str(1), Arr(<<>>)}]

Modifiers == {"$set", "$unset", "$inc", "$max", "$min",
              "$push", "$addToSet", "$pop", "$pull"}
ModelFields == {"_id", "v"}

\* update queries: a replacement document (_id Absent: no _id key), one
\* modifier on one field, a modifier whose argument is not an object, and a
\* mix of modifiers and normal fields
Replacements == [kind : {"replace"}, m : {""}, field : {""},
                 value : {Absent, Num(1)},
                 _id : {Absent} \cup Strs \cup {Num(1), Arr(<<>>)}]
ModifierQueries ==
    [kind : {"modifier"}, m : {"$set", "$unset", "$inc", "$max", "$min", "$pop", "$rename"},
     field : ModelFields, value : Strs \cup Nums, _id : {Absent}]
    \cup [kind : {"modifier"}, m : {"$push", "$addToSet", "$pull"},
          field : ModelFields, value : Nums, _id : {Absent}]
OtherQueries == [kind : {"nonObject", "mixed"}, m : {"$set"}, field : {""},
                 value : {Absent}, _id : {Absent}]
UpdateQueries == Replacements \cup ModifierQueries \cup OtherQueries

Has(x) == x.t # "undefined"

\* a !== b: an array is identical only to itself, never to a copy
NotIdentical(a, b, isCopy) == a # b \/ (a.t = "array" /\ isCopy)

\* ToNumber of a value under the coercion of < and > against a number;
\* -1 stands for NaN
ToNumber(x) ==
    IF x.t = "number" THEN x.v
    ELSE IF x.t = "array" /\ Len(x.elems) = 0 THEN 0
    ELSE IF x.t = "array" /\ Len(x.elems) = 1 THEN x.elems[1]
    ELSE -1

\* value > cur and value < cur, value a string or a number
Greater(value, cur) ==
    IF value.t = "string"
    THEN IF cur.t = "string" THEN value.v > cur.v ELSE cur.t = "array"
    ELSE ToNumber(cur) # -1 /\ value.v > ToNumber(cur)
Less(value, cur) ==
    IF value.t = "string"
    THEN cur.t = "string" /\ value.v < cur.v
    ELSE ToNumber(cur) # -1 /\ value.v < ToNumber(cur)

Threw == [threw |-> TRUE, value |-> Absent]
Returned(x) == [threw |-> FALSE, value |-> x]

RECURSIVE Without(_, _)
Without(e, n) ==
    IF e = <<>> THEN <<>>
    ELSE IF Head(e) = n THEN Without(Tail(e), n)
    ELSE <<Head(e)>> \o Without(Tail(e), n)

\* lastStepModifierFunctions[m](obj, field, value): the new value of the
\* field, cur being its value before
lastStepModifierFunctions(m, cur, value) ==
    CASE m = "$set" -> Returned(value)
      [] m = "$unset" -> Returned(Absent)
      [] m = "$inc" ->
            IF value.t # "number" THEN Threw
            ELSE IF Has(cur) /\ cur.t # "number" THEN Threw
            ELSE IF Has(cur) THEN Returned(Num(cur.v + value.v))
            ELSE Returned(value)
      [] m = "$max" ->
            IF ~Has(cur) \/ Greater(value, cur) THEN Returned(value) ELSE Returned(cur)
      [] m = "$min" ->
            IF ~Has(cur) \/ Less(value, cur) THEN Returned(value) ELSE Returned(cur)
      [] m = "$push" ->
            IF ~Has(cur) THEN Returned(Arr(<<value.v>>))
            ELSE IF cur.t # "array" THEN Threw
            ELSE Returned(Arr(Append(cur.elems, value.v)))
      [] m = "$addToSet" ->
            IF ~Has(cur) THEN Returned(Arr(<<value.v>>))
            ELSE IF cur.t # "array" THEN Threw
            ELSE IF \E i \in DOMAIN cur.elems : cur.elems[i] = value.v
            THEN Returned(cur)
            ELSE Returned(Arr(Append(cur.elems, value.v)))
      [] m = "$pop" ->
            IF cur.t # "array" THEN Threw
            ELSE IF value.t # "number" THEN Threw
            ELSE IF value.v = 0 \/ cur.elems = <<>> THEN Returned(cur)
            ELSE Returned(Arr(SubSeq(cur.elems, 1, Len(cur.elems) - 1)))
      [] m = "$pull" ->
            IF cur.t # "array" THEN Threw
            ELSE Returned(Arr(Without(cur.elems, value.v)))

ModifyResult(threw, doc) == [threw |-> threw, doc |-> doc]

\* a modify without the last test on _id
modifyUnchecked(obj, updateQuery) ==
    IF updateQuery.kind = "replace"
    THEN IF Has(updateQuery._id) /\ NotIdentical(updateQuery._id, obj._id, TRUE)
         THEN ModifyResult(TRUE, obj)
         ELSE ModifyResult(FALSE, [_id |-> obj._id, v |-> updateQuery.value])
    ELSE IF updateQuery.kind = "mixed" \/ updateQuery.kind = "nonObject"
    THEN ModifyResult(TRUE, obj)
    ELSE IF updateQuery.m \notin Modifiers
    THEN ModifyResult(TRUE, obj)
    ELSE LET r == lastStepModifierFunctions(updateQuery.m, obj[updateQuery.field],
                                            updateQuery.value)
             newDoc == [obj EXCEPT ![updateQuery.field] = r.value]
         IN  IF r.threw THEN ModifyResult(TRUE, obj) ELSE ModifyResult(FALSE, newDoc)

\* Model.modify(obj, updateQuery): the new document, or an error. A
\* replacement gets obj._id itself, the modifiers work on a deep copy of obj
modify(obj, updateQuery) ==
    IF updateQuery.kind = "replace"
    THEN IF Has(updateQuery._id) /\ NotIdentical(updateQuery._id, obj._id, TRUE)
         THEN ModifyResult(TRUE, obj)
         ELSE LET newDoc == [_id |-> obj._id, v |-> updateQuery.value]
              IN  IF NotIdentical(obj._id, newDoc._id, FALSE)
                  THEN ModifyResult(TRUE, obj)
                  ELSE ModifyResult(FALSE, newDoc)
    ELSE IF updateQuery.kind = "mixed" \/ updateQuery.kind = "nonObject"
    THEN ModifyResult(TRUE, obj)
    ELSE IF updateQuery.m \notin Modifiers
    THEN ModifyResult(TRUE, obj)
    ELSE LET r == lastStepModifierFunctions(updateQuery.m, obj[updateQuery.field],
                                            updateQuery.value)
             newDoc == [obj EXCEPT ![updateQuery.field] = r.value]
         IN  IF r.threw \/ NotIdentical(obj._id, newDoc._id, TRUE)
             THEN ModifyResult(TRUE, obj)
             ELSE ModifyResult(FALSE, newDoc)

\* a call of Model.modify on the document the previous call returned (on
\* the same document again when the previous call threw)
Modify(updateQuery) ==
    /\ call.n < MaxUpdates
    /\ LET obj == IF result.threw THEN call.obj ELSE result.doc
       IN  /\ call' = [obj |-> obj, updateQuery |-> updateQuery, n |-> call.n + 1]
           /\ result' = modify(obj, updateQuery)
    /\ UNCHANGED <<execVars, loadVars, replayVars, lastOp, storageVars, indexVars>>

\* ------------------------------------------------- Persistence constructor

MaxHookString == 2

\* the strings a hook may be given and may return; randomString is the
\* string the constructor tries the hooks on
HookStrings == 0..MaxHookString
randomString == 0

\* options.afterSerialization / options.beforeDeserialization: undefined
\* (set FALSE) or a function from strings to strings
Identity == [s \in HookStrings |-> s]
NoHook == [set |-> FALSE, fn |-> Identity]
Hooks == {NoHook} \cup [set : {TRUE}, fn : [HookStrings -> HookStrings]]

\* options.hook || function (s) { return s; }
HookOrIdentity(hook) == IF hook.set THEN hook.fn ELSE Identity

\* a constructor without the trial of the hooks on randomString
PersistenceConstructorNoTrial(options) ==
    IF options.afterSerialization.set /\ ~options.beforeDeserialization.set
    THEN [called |-> TRUE, threw |-> TRUE]
    ELSE IF ~options.afterSerialization.set /\ options.beforeDeserialization.set
    THEN [called |-> TRUE, threw |-> TRUE]
    ELSE [called |-> TRUE, threw |-> FALSE]

\* new Persistence(options): whether the constructor throws
PersistenceConstructor(options) ==
    IF options.afterSerialization.set /\ ~options.beforeDeserialization.set
    THEN [called |-> TRUE, threw |-> TRUE]
    ELSE IF ~options.afterSerialization.set /\ options.beforeDeserialization.set
    THEN [called |-> TRUE, threw |-> TRUE]
    ELSE LET afterSerialization == HookOrIdentity(options.afterSerialization)
             beforeDeserialization == HookOrIdentity(options.beforeDeserialization)
         IN  [called |-> TRUE,
              threw |-> beforeDeserialization[afterSerialization[randomString]]
                            # randomString]

NewPersistence ==
    /\ ~result.called
    /\ result' = PersistenceConstructor(call)
    /\ UNCHANGED <<execVars, loadVars, replayVars, lastOp, storageVars, indexVars, call>>

\* ------------------------------------------------- comparison operators

\* further values: a Date (v is getTime()), null, a plain object, a boolean
DateV(ms) == [t |-> "date", v |-> ms, elems |-> <<>>]
NullV == [t |-> "null", v |-> 0, elems |-> <<>>]
ObjectV == [t |-> "object", v |-> 0, elems |-> <<>>]
BoolV(i) == [t |-> "boolean", v |-> i, elems |-> <<>>]

CompareValues ==
    Nums \cup Strs \cup {DateV(1), DateV(2), NullV, ObjectV, BoolV(1), Absent,
                         Arr(<<>>), Arr(<<1>>), Arr(<<1, 2>>)}
ComparisonOperators == {"$lt", "$lte", "$gt", "$gte"}

\* typeof x
TypeOf(x) ==
    IF x.t \in {"date", "null", "object", "array"} THEN "object" ELSE x.t

\* typeof x === 'string' || typeof x === 'number' || util.types.isDate(x)
IsStringNumberOrDate(x) == x.t \in {"string", "number", "date"}

\* areComparable(a, b): false when neither a nor b is a string, a number or
\* a Date, false when typeof a differs from typeof b, true otherwise
areComparable(a, b) ==
    IF ~IsStringNumberOrDate(a) /\ ~IsStringNumberOrDate(b)
    THEN FALSE
    ELSE TypeOf(a) = TypeOf(b)

\* the number a value becomes under < <= > >= when the operands are not
\* both strings (a Date its time, null 0, an array the number its joined
\* elements spell); -1 stands for NaN
ToNumeric(x) ==
    IF x.t = "date" THEN x.v
    ELSE IF x.t = "null" THEN 0
    ELSE IF x.t = "boolean" THEN x.v
    ELSE ToNumber(x)

\* a < b and a <= b of the language
JsLess(a, b) ==
    IF a.t = "string" /\ b.t = "string"
    THEN a.v < b.v
    ELSE ToNumeric(a) # -1 /\ ToNumeric(b) # -1 /\ ToNumeric(a) < ToNumeric(b)
JsLessOrEqual(a, b) ==
    IF a.t = "string" /\ b.t = "string"
    THEN a.v <= b.v
    ELSE ToNumeric(a) # -1 /\ ToNumeric(b) # -1 /\ ToNumeric(a) <= ToNumeric(b)

\* comparisonFunctions.$lt / $lte / $gt / $gte (a, b)
comparisonFunctions(op, a, b) ==
    CASE op = "$lt" -> areComparable(a, b) /\ JsLess(a, b)
      [] op = "$lte" -> areComparable(a, b) /\ JsLessOrEqual(a, b)
      [] op = "$gt" -> areComparable(a, b) /\ JsLess(b, a)
      [] op = "$gte" -> areComparable(a, b) /\ JsLessOrEqual(b, a)

Compare ==
    /\ ~result.called
    /\ result' = [called |-> TRUE, value |-> comparisonFunctions(call.op, call.a, call.b)]
    /\ UNCHANGED <<execVars, loadVars, replayVars, lastOp, storageVars, indexVars, call>>

\* ---------------------------------------------------------- compareThings

\* a number that is NaN (v = -1, as in ToNumber), and an object: v numbers
\* the set of its key names (0: no key, 1: a, 2: b, 3: a and b), elems are
\* the values of its keys in sorted key order
NaNV == Num(-1)
Obj(k, e) == [t |-> "object", v |-> k, elems |-> e]

Things ==
    {Absent, NullV, Num(0), Num(1), NaNV, Str(1), Str(2), BoolV(0), BoolV(1),
     DateV(1), DateV(2), Arr(<<>>), Arr(<<1>>), Arr(<<2>>), Arr(<<1, 2>>),
     Obj(0, <<>>), Obj(1, <<1>>), Obj(2, <<1>>), Obj(1, <<2>>), Obj(3, <<1, 2>>)}

\* a < b of the language for two numbers (false when one is NaN), two
\* strings, two booleans, two times or two lengths
NsbLess(x, y, isNumber) == ~(isNumber /\ (x = -1 \/ y = -1)) /\ x < y

\* compareNSB(a, b)
compareNSB(x, y, isNumber) ==
    IF NsbLess(x, y, isNumber) THEN -1
    ELSE IF NsbLess(y, x, isNumber) THEN 1
    ELSE 0

\* the loop of compareArrays and of the object branch of compareThings over
\* number elements, then compareNSB of the lengths
RECURSIVE compareArrays(_, _)
compareArrays(e, f) ==
    IF e = <<>> \/ f = <<>>
    THEN compareNSB(Len(e), Len(f), FALSE)
    ELSE LET comp == compareNSB(Head(e), Head(f), TRUE)
         IN  IF comp # 0 THEN comp ELSE compareArrays(Tail(e), Tail(f))

\* Model.compareThings(a, b) with the default string comparison
compareThings(a, b) ==
    IF a.t = "undefined" THEN (IF b.t = "undefined" THEN 0 ELSE -1)
    ELSE IF b.t = "undefined" THEN 1
    ELSE IF a.t = "null" THEN (IF b.t = "null" THEN 0 ELSE -1)
    ELSE IF b.t = "null" THEN 1
    ELSE IF a.t = "number"
    THEN (IF b.t = "number" THEN compareNSB(a.v, b.v, TRUE) ELSE -1)
    ELSE IF b.t = "number" THEN 1
    ELSE IF a.t = "string"
    THEN (IF b.t = "string" THEN compareNSB(a.v, b.v, FALSE) ELSE -1)
    ELSE IF b.t = "string" THEN 1
    ELSE IF a.t = "boolean"
    THEN (IF b.t = "boolean" THEN compareNSB(a.v, b.v, FALSE) ELSE -1)
    ELSE IF b.t = "boolean" THEN 1
    ELSE IF a.t = "date"
    THEN (IF b.t = "date" THEN compareNSB(a.v, b.v, FALSE) ELSE -1)
    ELSE IF b.t = "date" THEN 1
    ELSE IF a.t = "array"
    THEN (IF b.t = "array" THEN compareArrays(a.elems, b.elems) ELSE -1)
    ELSE IF b.t = "array" THEN 1
    ELSE compareArrays(a.elems, b.elems)

\* the three comparisons of a, b and c and the reverse of the first
CompareThings ==
    /\ ~result.called
    /\ result' = [called |-> TRUE,
                  ab |-> compareThings(call.a, call.b),
                  ba |-> compareThings(call.b, call.a),
                  bc |-> compareThings(call.b, call.c),
                  ac |-> compareThings(call.a, call.c)]
    /\ UNCHANGED <<execVars, loadVars, replayVars, lastOp, storageVars, indexVars, call>>

\* ---------------------------------------------------------- array modifiers

MaxElems == 2

\* the elements of an array field and the values added to it
SetThings == Things \ {Absent, NaNV}
SetArrays == UNION {[1..n -> SetThings] : n \in 0..MaxElems}

\* $addToSet on an array field with a value that has no $each: the value is
\* pushed unless compareThings(v, value) === 0 for an element v
addToSet(arr, value) ==
    IF \E i \in DOMAIN arr : compareThings(arr[i], value) = 0
    THEN arr
    ELSE Append(arr, value)

\* Model.modify(obj, { $addToSet: { arr: value } }) on obj = { arr: [...] }
AddToSet ==
    /\ ~result.called
    /\ result' = [called |-> TRUE, arr |-> addToSet(call.arr, call.value)]
    /\ UNCHANGED <<execVars, loadVars, replayVars, lastOp, storageVars, indexVars, call>>

MaxEach == 2

\* $slice values reach past the longest array on both sides
MaxSlice == MaxElems + MaxEach + 1

\* the field before the update: missing, an array of numbers, or a string
PushFields ==
    {Absent, Str(1)} \cup {Arr(e) : e \in UNION {[1..n -> {1, 2}] : n \in 0..MaxElems}}

\* the operand of $push, an object with $each or $slice: $each is missing,
\* an array of numbers or a string; $slice is missing or a whole number;
\* other tells whether the object has one more key
EachValues ==
    {Absent, Str(1)} \cup {Arr(e) : e \in UNION {[1..n -> {3, 4}] : n \in 0..MaxEach}}
SliceValues ==
    {[defined |-> FALSE, n |-> 0]} \cup [defined : {TRUE}, n : (0 - MaxSlice)..MaxSlice]
PushOperands ==
    {o \in [each : EachValues, slice : SliceValues, other : BOOLEAN] :
        o.each # Absent \/ o.slice.defined}

Math_max(a, b) == IF a > b THEN a ELSE b
Math_min(a, b) == IF a < b THEN a ELSE b

\* Array.prototype.slice(start, end): a negative start counts from the end,
\* both are clamped to the array
ArraySlice(e, start, end) ==
    LET from == IF start < 0 THEN Math_max(Len(e) + start, 0) ELSE Math_min(start, Len(e))
        to == IF end < 0 THEN Math_max(Len(e) + end, 0) ELSE Math_min(end, Len(e))
    IN  IF from >= to THEN <<>> ELSE SubSeq(e, from + 1, to)

\* a start that is not clamped at the front of the array
sliceStartUnclamped(n, slice) == IF slice < 0 THEN n + slice ELSE 0

\* start of $push for a $slice that is not 0
sliceStart(n, slice) == IF slice < 0 THEN Math_max(0, n + slice) ELSE 0

\* end of $push for a $slice that is not 0
sliceEnd(n, slice) == IF slice < 0 THEN n ELSE Math_min(n, slice)

\* lastStepModifierFunctions.$push(obj, field, value) for an operand with
\* $each or $slice, followed by checkObject(newDoc) of Model.modify, which
\* rejects an operand that was pushed as an element with its $slice key
dollarPush(field, value) ==
    LET arrayField == IF Has(field) THEN field ELSE Arr(<<>>)
        each == IF value.slice.defined /\ value.slice.n # 0 /\ value.each = Absent
                THEN Arr(<<>>) ELSE value.each
        keys == (IF each # Absent THEN 1 ELSE 0) + (IF value.slice.defined THEN 1 ELSE 0)
                + (IF value.other THEN 1 ELSE 0)
    IN  IF arrayField.t # "array" THEN Threw
        ELSE IF each # Absent
        THEN IF keys >= 3 \/ (keys = 2 /\ ~value.slice.defined) THEN Threw
             ELSE IF each.t # "array" THEN Threw
             ELSE LET pushed == arrayField.elems \o each.elems
                      n == Len(pushed)
                  IN  IF ~value.slice.defined THEN Returned(Arr(pushed))
                      ELSE IF value.slice.n = 0 THEN Returned(Arr(<<>>))
                      ELSE Returned(Arr(ArraySlice(pushed, sliceStart(n, value.slice.n),
                                                   sliceEnd(n, value.slice.n))))
        ELSE Threw

\* Model.modify(obj, { $push: { arr: value } })
DollarPush ==
    /\ ~result.called
    /\ result' = [called |-> TRUE, r |-> dollarPush(call.field, call.value)]
    /\ UNCHANGED <<execVars, loadVars, replayVars, lastOp, storageVars, indexVars, call>>

\* ------------------------------------------------------------ specification

InitExecutor ==
    /\ isReady = FALSE
    /\ ready = FALSE
    /\ _buffer = <<>>
    /\ buffer = [set |-> FALSE, value |-> <<>>]
    /\ _queue = <<>>
    /\ running = None
    /\ cbScheduled = FALSE
    /\ nextTask = 1
    /\ nextSeq = 1
    /\ startLog = <<>>
    /\ doneLog = {}
    /\ threwLog = {}
    /\ lastOp = Op("init", 0, FALSE, "", FALSE)

InitLoad ==
    /\ loadPc = [i \in LoadIds |-> "idle"]
    /\ loadResult = [i \in LoadIds |-> "none"]
    /\ cbCalls = [i \in LoadIds |-> 0]
    /\ callbackCalls = [i \in LoadIds |-> 0]
    /\ loads = 0

InitStorage ==
    /\ datafile = NoFile
    /\ tempfile = NoFile
    /\ cache = {}
    /\ storeHist = [preLoad |-> {}, cleanLoad |-> FALSE, mutations |-> 0,
                    wrote |-> FALSE, old |-> {}, new |-> {},
                    crashes |-> 0, crashed |-> FALSE]

\* new Indexer(fieldName): not unique, not sparse, an empty tree
InitIndexer ==
    /\ _tree = {}
    /\ _isUniqueKeys = FALSE
    /\ _isAllowSparse = FALSE
    /\ keyWalk = "byKey"
    /\ live = {}
    /\ idxOp = [op |-> "init", kind |-> "", key |-> "", had |-> FALSE, threw |-> FALSE]
    /\ idxHist = [n |-> 0, threw |-> FALSE]

InitFn ==
    /\ call = <<>>
    /\ result = <<>>

Init ==
    /\ InitExecutor
    /\ InitLoad
    /\ inMemoryOnly \in BOOLEAN
    /\ rawData = <<>>
    /\ treated = NotTreated
    /\ InitStorage
    /\ InitIndexer
    /\ InitFn

Next ==
    \/ \E lastArg \in LastArgs, force \in BOOLEAN : Push(lastArg, force)
    \/ \E lastArg \in LastArgs : exec(lastArg)
    \/ compactDatafile
    \/ QueueProcess
    \/ \E threw \in BOOLEAN : FnDone(threw)
    \/ Immediate
    \/ loadDatabase
    \/ \E i \in LoadIds, err \in BOOLEAN : ensureDirectoryExistsCallback(i, err)

Spec == Init /\ [][Next]_vars

\* the async queue, the tasks' I/O and the event loop make progress
FairSpec ==
    /\ Spec
    /\ WF_vars(QueueProcess)
    /\ WF_vars(\E threw \in BOOLEAN : FnDone(threw))
    /\ WF_vars(Immediate)

\* replay of a journal: treatRawData applied to every data file of at most
\* MaxLines lines
InitReplay ==
    /\ InitExecutor
    /\ InitLoad
    /\ inMemoryOnly = FALSE
    /\ rawData \in JournalInputs
    /\ treated = NotTreated
    /\ InitStorage
    /\ InitIndexer
    /\ InitFn

NextReplay == TreatRawData

SpecReplay == InitReplay /\ [][NextReplay]_vars

\* a datastore on a datafile that some earlier process left behind: it is
\* loaded, mutated, rewritten, stopped and loaded again
InitStore ==
    /\ InitExecutor
    /\ InitLoad
    /\ inMemoryOnly \in BOOLEAN
    /\ rawData = <<>>
    /\ treated = NotTreated
    /\ datafile \in Files
    /\ tempfile = NoFile
    /\ cache = {}
    /\ storeHist = [preLoad |-> {}, cleanLoad |-> FALSE, mutations |-> 0,
                    wrote |-> FALSE, old |-> {}, new |-> {},
                    crashes |-> 0, crashed |-> FALSE]
    /\ InitIndexer
    /\ InitFn

NextStore ==
    \/ loadDatabase
    \/ \E i \in LoadIds, err \in BOOLEAN : ensureDirectoryExistsCallback(i, err)
    \/ \E d \in Ids : DatastoreMutation(d)
    \/ \E data \in DocSets : crashSafeWriteFile(data)
    \/ Crash

SpecStore == InitStore /\ [][NextStore]_vars

\* a Persistence constructed with any combination of hooks
InitHooks ==
    /\ InitExecutor
    /\ InitLoad
    /\ inMemoryOnly = FALSE
    /\ rawData = <<>>
    /\ treated = NotTreated
    /\ InitStorage
    /\ InitIndexer
    /\ call \in [afterSerialization : Hooks, beforeDeserialization : Hooks]
    /\ result = [called |-> FALSE, threw |-> FALSE]

NextHooks == NewPersistence

SpecHooks == InitHooks /\ [][NextHooks]_vars

\* loads of a datafile that declares an index, with operations submitted
\* around them
InitLoadFile ==
    /\ InitExecutor
    /\ InitLoad
    /\ inMemoryOnly = FALSE
    /\ rawData \in IndexedFiles
    /\ treated = NotTreated
    /\ datafile = File({rawData[2].doc._id, rawData[3].doc._id})
    /\ tempfile = NoFile
    /\ cache = {}
    /\ storeHist = [preLoad |-> {}, cleanLoad |-> FALSE, mutations |-> 0,
                    wrote |-> FALSE, old |-> {}, new |-> {},
                    crashes |-> 0, crashed |-> FALSE]
    /\ InitIndexer
    /\ InitFn

NextLoadFile ==
    \/ \E lastArg \in LastArgs, force \in BOOLEAN : Push(lastArg, force)
    \/ loadDatabase
    \/ \E i \in LoadIds, err \in BOOLEAN : ensureDirectoryExistsCallback(i, err)

SpecLoadFile == InitLoadFile /\ [][NextLoadFile]_vars

\* $addToSet of one value to one array
InitAddToSet ==
    /\ InitExecutor
    /\ InitLoad
    /\ inMemoryOnly = FALSE
    /\ rawData = <<>>
    /\ treated = NotTreated
    /\ InitStorage
    /\ InitIndexer
    /\ call \in [arr : SetArrays, value : SetThings]
    /\ result = [called |-> FALSE, arr |-> <<>>]

NextAddToSet == AddToSet

SpecAddToSet == InitAddToSet /\ [][NextAddToSet]_vars

\* $push of one operand onto one field
InitPush ==
    /\ InitExecutor
    /\ InitLoad
    /\ inMemoryOnly = FALSE
    /\ rawData = <<>>
    /\ treated = NotTreated
    /\ InitStorage
    /\ InitIndexer
    /\ call \in [field : PushFields, value : PushOperands]
    /\ result = [called |-> FALSE, r |-> Threw]

NextPush == DollarPush

SpecPush == InitPush /\ [][NextPush]_vars

\* compareThings on three things
InitOrder ==
    /\ InitExecutor
    /\ InitLoad
    /\ inMemoryOnly = FALSE
    /\ rawData = <<>>
    /\ treated = NotTreated
    /\ InitStorage
    /\ InitIndexer
    /\ call \in [a : Things, b : Things, c : Things]
    /\ result = [called |-> FALSE, ab |-> 0, ba |-> 0, bc |-> 0, ac |-> 0]

NextOrder == CompareThings

SpecOrder == InitOrder /\ [][NextOrder]_vars

\* one comparison operator applied to a document value and a query value
InitCompare ==
    /\ InitExecutor
    /\ InitLoad
    /\ inMemoryOnly = FALSE
    /\ rawData = <<>>
    /\ treated = NotTreated
    /\ InitStorage
    /\ InitIndexer
    /\ call \in [op : ComparisonOperators, a : CompareValues, b : CompareValues]
    /\ result = [called |-> FALSE, value |-> FALSE]

NextCompare == Compare

SpecCompare == InitCompare /\ [][NextCompare]_vars

\* one document under a sequence of Model.modify calls
InitModify ==
    /\ InitExecutor
    /\ InitLoad
    /\ inMemoryOnly = FALSE
    /\ rawData = <<>>
    /\ treated = NotTreated
    /\ InitStorage
    /\ InitIndexer
    /\ \E obj \in ModelDocs :
          /\ call = [obj |-> obj, updateQuery |-> CHOOSE q \in OtherQueries : TRUE, n |-> 0]
          /\ result = ModifyResult(FALSE, obj)

NextModify == \E updateQuery \in UpdateQueries : Modify(updateQuery)

SpecModify == InitModify /\ [][NextModify]_vars

\* one index, of either kind, under a sequence of insert and remove calls
InitIndex ==
    /\ InitExecutor
    /\ InitLoad
    /\ inMemoryOnly = FALSE
    /\ rawData = <<>>
    /\ treated = NotTreated
    /\ InitStorage
    /\ _tree = {}
    /\ _isUniqueKeys \in BOOLEAN
    /\ _isAllowSparse \in BOOLEAN
    /\ keyWalk \in KeyWalks
    /\ live = {}
    /\ idxOp = [op |-> "init", kind |-> "", key |-> "", had |-> FALSE, threw |-> FALSE]
    /\ idxHist = [n |-> 0, threw |-> FALSE]
    /\ InitFn

NextIndex ==
    \/ \E arg \in DocArgs \cup ArrayArgs : insert(arg)
    \/ \E arg \in DocArgs \cup ArrayArgs \cup KeyArgs : remove(arg)

SpecIndex == InitIndex /\ [][NextIndex]_vars

\* ---------------------------------------------------------------- Executor claims

\* C1: tasks are executed one at a time in the order they entered the queue:
\* the i-th entry handed to the queue is the i-th entry started, and an entry
\* is started only when every entry started before it has signalled completion.
C1_FifoOneAtATime ==
    /\ \A i \in 1..Len(startLog) : startLog[i] = i
    /\ \A i \in 1..(Len(startLog) - 1) : startLog[i] \in doneLog

C1_Witness ==
    /\ Len(startLog) >= 2
    /\ startLog[1] \in doneLog
    /\ running # None
    /\ _queue # <<>>

\* C2: push(task, force) puts the task on the run queue iff the executor is
\* ready or force is true; otherwise the task goes to the buffer and its fn is
\* not started while the executor stays in the buffering state.
C2_PushQueuesIffReadyOrForce ==
    /\ lastOp.op = "push" =>
           (lastOp.to = "queue" <=> (isReady = TRUE \/ lastOp.force))
    /\ (running # None /\ ~running.forced) => isReady = TRUE

\* C3: once processBuffer has been called, every push without force is placed
\* directly on the run queue.
C3_ReadyAfterProcessBuffer ==
    (lastOp.op = "push" /\ ~lastOp.force /\ ready = TRUE) => lastOp.to = "queue"

\* C4: processBuffer leaves the buffer empty.
C4_BufferDrained ==
    (lastOp.op = "loadCallback" /\ loadResult[lastOp.task] = "ok") => _buffer = <<>>

\* C5: the completion signal is scheduled before the user callback is invoked,
\* so that after a user callback that throws the signal is still delivered and
\* the next queued task is started.
C5_ThrowDoesNotStall ==
    /\ []((lastOp.op = "callback" /\ lastOp.threw) => cbScheduled)
    /\ (running # None /\ running.seq \in threwLog) ~> (running = None)
    /\ (running # None /\ running.seq \in threwLog /\ _queue # <<>>)
           ~> (running # None /\ running.seq \notin threwLog)

C5_Witness ==
    \E s \in threwLog : s \in doneLog /\ Len(startLog) > s

\* C6: a task pushed with no callback or with a falsy last argument is complete
\* after its fn has run, so the tasks queued after it are executed.
C6_NoCallbackCompletes ==
    (running # None /\ running.lastArg \in {"falsy", "none"}) ~> (running = None)

\* C7: no operation pushed without force is started before load has read the
\* data file, replayed it into the indexes and rewritten it by compaction.
C7_ReleaseIsLastStepOfLoad ==
    (running # None /\ ~running.forced) =>
        \E i \in LoadIds : loadPc[i] = "compacted"

\* C8: whenever load completes without error the executor has been marked ready
\* and its buffer drained.
C8_LoadMarksReady ==
    \A i \in LoadIds :
        loadResult[i] = "ok" => ((isReady = TRUE \/ ready = TRUE) /\ _buffer = <<>>)

\* ------------------------------------------------------------- replay claims

IsDocAt(data, i) ==
    data[i].text = "json" /\ data[i].doc._id \in Ids /\ ~data[i].doc.deleted
IsTombstoneAt(data, i) ==
    data[i].text = "json" /\ data[i].doc._id \in Ids /\ data[i].doc.deleted
IsIndexCreatedAt(data, i) ==
    data[i].text = "json" /\ data[i].doc.indexCreated.fieldName \in FieldNames
IsIndexRemovedAt(data, i) ==
    data[i].text = "json" /\ data[i].doc.indexRemoved \in FieldNames

\* the documents of a journal: the document records that no later record
\* (document or tombstone) of the same _id follows
ExpectedData(data) ==
    {data[i].doc : i \in {i \in DOMAIN data :
        /\ IsDocAt(data, i)
        /\ \A j \in DOMAIN data :
              (j > i /\ (IsDocAt(data, j) \/ IsTombstoneAt(data, j)))
                 => data[j].doc._id # data[i].doc._id}}

\* the index descriptors of a journal: the $$indexCreated records that no
\* later $$indexCreated or $$indexRemoved record of the same field follows
ExpectedIndexes(data) ==
    {data[i].doc.indexCreated : i \in {i \in DOMAIN data :
        /\ IsIndexCreatedAt(data, i)
        /\ \A j \in DOMAIN data :
              j > i => /\ ~(IsIndexCreatedAt(data, j) /\
                            data[j].doc.indexCreated.fieldName =
                                data[i].doc.indexCreated.fieldName)
                       /\ ~(IsIndexRemovedAt(data, j) /\
                            data[j].doc.indexRemoved =
                                data[i].doc.indexCreated.fieldName)}}

\* C9: replay yields exactly the fold of the journal: per _id the last
\* document record unless a tombstone follows it, and per fieldName the last
\* $$indexCreated record unless a $$indexRemoved record follows it.
C9_ReplayIsFold ==
    (treated.called /\ ~treated.threw) =>
        /\ treated.data = ExpectedData(rawData)
        /\ {treated.indexes[f] : f \in DOMAIN treated.indexes} = ExpectedIndexes(rawData)
        /\ \A f \in DOMAIN treated.indexes : treated.indexes[f].fieldName = f

C9_Witness ==
    /\ treated.called /\ ~treated.threw
    /\ \E i, j, k \in DOMAIN rawData :
          /\ i < j /\ j < k
          /\ IsDocAt(rawData, i) /\ IsTombstoneAt(rawData, j) /\ IsDocAt(rawData, k)
          /\ rawData[i].doc._id = rawData[j].doc._id
          /\ rawData[k].doc._id = rawData[j].doc._id
          /\ rawData[k].doc \in treated.data
    /\ \E i \in DOMAIN rawData : IsIndexCreatedAt(rawData, i)

\* C10: load fails with a corruption error when the corruption counter over
\* the number of lines exceeds corruptAlertThreshold (0.1 when not
\* configured), and proceeds when it does not.
C10_CorruptionThreshold ==
    treated.called =>
        (treated.threw <=>
            ExceedsThreshold(treated.corruptItems, Len(rawData),
                             DefaultCorruptAlertThreshold))

\* ------------------------------------------------------- Storage claims

\* a load of a persistent datastore has just reported success, and nothing
\* has touched the memory since that load was started
LoadJustSucceeded ==
    /\ lastOp.op = "loadCallback"
    /\ ~lastOp.threw
    /\ inMemoryOnly = FALSE
    /\ storeHist.cleanLoad

\* C11: when the process stops after crashSafeWriteFile was asked to replace
\* the contents of the datafile, the load that follows brings into memory
\* either the complete old contents or the complete new contents.
C11_CrashSafeRewrite ==
    (LoadJustSucceeded /\ storeHist.wrote /\ storeHist.crashed)
        => cache \in {storeHist.old, storeHist.new}

\* C12: after mutations of the datastore, each handed to persistNewState, a
\* load on the same file leaves in memory the documents that were in memory
\* before the load.
C12_ReloadRoundTrip ==
    (LoadJustSucceeded /\ storeHist.mutations > 0 /\ storeHist.crashes = 0)
        => cache = storeHist.preLoad

\* ------------------------------------------------------- Indexer claims

HasKey(t, k) == \E n \in t : n.key = k

\* C13: in a unique index no two entries share a key, and inserting a
\* document whose key is already present throws and leaves the index, its
\* count and its stored documents, as it was.
C13_UniqueInsertRejected ==
    /\ [](_isUniqueKeys => \A n, m \in _tree : n.key = m.key => n = m)
    /\ [][\A arg \in DocArgs :
            (/\ _isUniqueKeys
             /\ ArgKey(arg) \in Keys
             /\ HasKey(_tree, ArgKey(arg))
             /\ insert(arg))
            => (/\ idxOp'.threw
                /\ _tree' = _tree
                /\ Cardinality(_tree') = Cardinality(_tree))]_vars

C13_Witness ==
    /\ _isUniqueKeys
    /\ idxOp.op = "insert" /\ idxOp.kind = "doc"
    /\ idxOp.key \in Keys /\ idxOp.had /\ idxOp.threw
    /\ HasKey(_tree, idxOp.key)

\* C14: a batch insert is all-or-nothing: when insert([d1..dn]) throws, the
\* index is what it was before the call, none of the documents of the batch
\* is stored, and an index that was empty is empty again.
C14_BatchAllOrNothing ==
    [][\A arg \in ArrayArgs :
          (insert(arg) /\ idxOp'.threw)
          => (/\ _tree' = _tree
              /\ \A n \in _tree' \ _tree : n.value \notin ArgDocs(arg)
              /\ (_tree = {} => Cardinality(_tree') = 0))]_vars

\* C15: inserting into a unique index a document whose indexed field is
\* null or missing throws and adds no entry, whatever the index holds.
C15_UniqueRejectsNullKey ==
    [][\A arg \in DocArgs :
          (/\ _isUniqueKeys
           /\ ArgKey(arg) \in {Null, Undefined}
           /\ insert(arg))
          => (idxOp'.threw /\ Cardinality(_tree') = Cardinality(_tree))]_vars

\* C16: in a non-unique index, inserting a document whose key is already
\* present overwrites the stored document: count() does not change and
\* find(key) is the document inserted last.
C16_NonUniqueOverwrites ==
    [][\A arg \in DocArgs :
          (/\ ~_isUniqueKeys
           /\ ArgKey(arg) \in Keys
           /\ HasKey(_tree, ArgKey(arg))
           /\ insert(arg))
          => (/\ ~idxOp'.threw
              /\ Cardinality(_tree') = Cardinality(_tree)
              /\ {n.value : n \in {m \in _tree' : m.key = ArgKey(arg)}}
                     = {arg.docs[1]})]_vars

C16_Witness ==
    /\ ~_isUniqueKeys
    /\ idxOp.op = "insert" /\ idxOp.kind = "doc"
    /\ idxOp.key \in Keys /\ idxOp.had /\ ~idxOp.threw
    /\ count = 1
    /\ find(idxOp.key) \in {{d} : d \in Docs}

\* C17: after a sequence of insert and remove calls none of which threw, the
\* index holds exactly one entry for every document inserted and not removed
\* since, under that document's value of the indexed field, so count() is
\* the number of those documents.
C17_OneEntryPerLiveDocument ==
    ~idxHist.threw
        => (/\ \A d \in live :
                  Cardinality({n \in _tree : n.value = d}) = 1
                  /\ [key |-> d.tf, value |-> d] \in _tree
            /\ count = Cardinality(live))

\* ------------------------------------------------------- Model claims

\* C18: _id is immutable: every call of Model.modify either throws or returns
\* a document whose _id is the _id of the document it was given, for a
\* replacement (which throws when it names another _id) and for every
\* modifier, over any sequence of updates.
C18_IdImmutable ==
    /\ (call.n > 0 /\ ~result.threw) => result.doc._id = call.obj._id
    /\ (/\ call.n > 0
        /\ call.updateQuery.kind = "replace"
        /\ Has(call.updateQuery._id)
        /\ call.updateQuery._id # call.obj._id) => result.threw
    /\ (/\ call.n > 0
        /\ call.updateQuery.kind = "modifier"
        /\ call.updateQuery.field = "_id"
        /\ ~result.threw) => result.doc = call.obj

C18_Witness ==
    /\ call.n = MaxUpdates
    /\ call.updateQuery.kind = "modifier"
    /\ call.updateQuery.field = "_id"
    /\ call.updateQuery.m = "$set"
    /\ call.updateQuery.value # call.obj._id
    /\ Has(call.obj.v)
    /\ result.threw

\* ------------------------------------------------------- Persistence claims

MutuallyInverse(after, before) ==
    /\ after.set /\ before.set
    /\ \A s \in HookStrings : before.fn[after.fn[s]] = s

\* C19: constructing a Persistence throws when exactly one of
\* afterSerialization and beforeDeserialization is configured, throws when
\* beforeDeserialization(afterSerialization(s)) differs from s on the
\* sentinel string, and succeeds with no hooks and with mutually inverse
\* hooks.
C19_HooksMustBeConsistent ==
    result.called =>
        LET after == call.afterSerialization
            before == call.beforeDeserialization
        IN  /\ (after.set # before.set) => result.threw
            /\ (after.set /\ before.set
                    /\ before.fn[after.fn[randomString]] # randomString)
                 => result.threw
            /\ (~after.set /\ ~before.set) => ~result.threw
            /\ MutuallyInverse(after, before) => ~result.threw
            /\ result.threw =>
                  \/ after.set # before.set
                  \/ HookOrIdentity(before)[HookOrIdentity(after)[randomString]]
                         # randomString

C19_Witness ==
    /\ result.called
    /\ result.threw
    /\ call.afterSerialization.set /\ call.beforeDeserialization.set
    /\ call.afterSerialization.fn # Identity
    /\ \E s \in HookStrings \ {randomString} :
          call.beforeDeserialization.fn[call.afterSerialization.fn[s]] = s

\* ------------------------------------------------------- Comparison claims

BothOf(a, b, t) == a.t = t /\ b.t = t

\* the order of two numbers, two strings or two dates under an operator
Ordered(op, x, y) ==
    CASE op = "$lt" -> x < y
      [] op = "$lte" -> x <= y
      [] op = "$gt" -> x > y
      [] op = "$gte" -> x >= y

\* C20: $lt, $lte, $gt and $gte are false for every pair of a document value
\* and a query value that is not two numbers, two strings or two dates, and
\* are the numeric / lexicographic comparison of the pair otherwise.
C20_ComparisonNeedsComparable ==
    result.called =>
        result.value =
            (/\ \/ BothOf(call.a, call.b, "number")
                \/ BothOf(call.a, call.b, "string")
                \/ BothOf(call.a, call.b, "date")
             /\ Ordered(call.op, call.a.v, call.b.v))

\* ------------------------------------------------------- Order claims

\* the place of a thing's type in undefined < null < number < string <
\* boolean < date < array < object
TypeRank(x) ==
    CASE x.t = "undefined" -> 0
      [] x.t = "null" -> 1
      [] x.t = "number" -> 2
      [] x.t = "string" -> 3
      [] x.t = "boolean" -> 4
      [] x.t = "date" -> 5
      [] x.t = "array" -> 6
      [] x.t = "object" -> 7

\* C21: compareThings is a total order over all values plus undefined:
\* compare(a, b) = -compare(b, a); compare(a, b) <= 0 and compare(b, c) <= 0
\* imply compare(a, c) <= 0; and things of different types are ordered
\* undefined < null < number < string < boolean < date < array < object.
C21_CompareIsTotalOrder ==
    result.called =>
        /\ result.ab = 0 - result.ba
        /\ (result.ab <= 0 /\ result.bc <= 0) => result.ac <= 0
        /\ TypeRank(call.a) < TypeRank(call.b) => result.ab = -1
        /\ TypeRank(call.a) > TypeRank(call.b) => result.ab = 1

\* ------------------------------------------------------- corruption counter

\* the number of lines that are not empty and that deserialize rejects
RECURSIVE CorruptLines(_)
CorruptLines(data) ==
    IF data = <<>> THEN 0
    ELSE (IF Head(data).text = "garbage" THEN 1 ELSE 0) + CorruptLines(Tail(data))

\* C22: the corruption counter that treatRawData compares with the threshold
\* is the number of non-empty lines that fail to deserialize, whether or not
\* the file ends with a newline (an empty last line).
C22_CorruptCountIsFailingLines ==
    treated.called => treated.corruptItems = CorruptLines(rawData)

\* C23: index mutations are atomic: when insert of a document or of a batch
\* throws, the index is exactly as it was before the call, and every entry
\* present before a failed batch insert is still present with its previous
\* document, also when a document of the batch has the key of an existing
\* entry.
C23_FailedInsertLeavesIndex ==
    [][\A arg \in DocArgs \cup ArrayArgs :
          (insert(arg) /\ idxOp'.threw)
          => (/\ _tree' = _tree
              /\ \A n \in _tree : \E m \in _tree' : m.key = n.key /\ m.value = n.value)]_vars

\* C30: remove(doc) removes only the entry that holds doc: every entry that
\* holds another document, the one under doc's key included, is still in
\* the index after the call.
C30_RemoveLeavesOtherDocuments ==
    [][\A arg \in DocArgs :
          remove(arg)
          => \A n \in _tree : n.value # arg.docs[1] => n \in _tree']_vars

\* ------------------------------------------------------- load claims

\* C24: when the replay of the surviving documents into the indexes fails
\* during a load (two documents with the same value under a unique index),
\* the load ends with every index empty, passes the error to its callback,
\* and the executor's buffer is not released.
C24_FailedReplayFailsLoad ==
    \A i \in LoadIds :
        (loadResult[i] # "none" /\ resetIndexesThrows(rawData))
            => (/\ loadResult[i] = "error"
                /\ cache = {}
                /\ ready = FALSE /\ isReady = FALSE
                /\ \A k \in DOMAIN _queue : _queue[k].forced)

\* ------------------------------------------------------- queue progress

\* the sequence numbers an entry of the queue can have
QueueSeqs == 1..(MaxPush * (MaxLoads + 1))

\* C25: every task that entered the executor's queue is eventually executed
\* and completes; in particular the task queued by compactDatafile, whose fn
\* is persistCachedDatabase, signals completion so that later tasks run.
C25_QueuedTaskCompletes ==
    \A s \in QueueSeqs : (s < nextSeq) ~> (s \in doneLog)

\* C28: over any sequence of push and processBuffer calls (processBuffer is
\* called by every load that succeeds), every pushed task is handed to the
\* run queue at most once: no task is in the queue twice or in the queue
\* while it runs, and the queue was handed no more entries than tasks were
\* pushed.
C28_TaskQueuedAtMostOnce ==
    /\ \A j, k \in DOMAIN _queue : _queue[j].task = _queue[k].task => j = k
    /\ \A k \in DOMAIN _queue : running # None => running.task # _queue[k].task
    /\ nextSeq <= nextTask

C26_AddToSetUsesDeepEquality ==
    result.called =>
        IF \E i \in DOMAIN call.arr : call.arr[i] = call.value
        THEN result.arr = call.arr
        ELSE result.arr = Append(call.arr, call.value)

\* the first k elements and the last k elements of a sequence
FirstOf(e, k) == SubSeq(e, 1, k)
LastOf(e, k) == SubSeq(e, Len(e) - k + 1, Len(e))

\* old ++ E truncated by n
Truncated(e, n) ==
    IF n > 0 THEN FirstOf(e, IF n < Len(e) THEN n ELSE Len(e))
    ELSE IF n < 0 THEN LastOf(e, IF 0 - n < Len(e) THEN 0 - n ELSE Len(e))
    ELSE <<>>

\* C27: $push with {$each: E, $slice: n} sets the array field (an array, or
\* a missing field taken as empty) to old ++ E truncated by n: the first
\* min(n, length) elements for n > 0, the last min(|n|, length) elements for
\* n < 0, none for n = 0; and an operand with a key other than $each and
\* $slice makes the update fail.
C27_PushEachSlice ==
    result.called =>
        /\ (/\ call.field.t # "string"
            /\ call.value.each.t = "array"
            /\ call.value.slice.defined
            /\ ~call.value.other)
           => result.r = Returned(Arr(Truncated(call.field.elems \o call.value.each.elems,
                                                call.value.slice.n)))
        /\ call.value.other => result.r.threw

C27_Witness ==
    /\ result.called
    /\ call.field = Arr(<<1>>)
    /\ call.value.each = Arr(<<3, 4>>)
    /\ call.value.slice = [defined |-> TRUE, n |-> 0 - MaxSlice]
    /\ ~call.value.other
    /\ result.r = Returned(Arr(<<1, 3, 4>>))

====
